---- MODULE Spec2Model ----
(***************************************************************************)
(* Model of .github/update_reviewers.py: the command-line entry point, the *)
(* reviewer selection of update_reviewers and the classification rule of   *)
(* add_reviewers.  Strings that the code inspects character by character   *)
(* (reviewer entries, logins, team names) are sequences of characters;     *)
(* label names and configuration keys, which the code only compares, are   *)
(* TLA+ strings.                                                           *)
(***************************************************************************)
EXTENDS Integers, Sequences, FiniteSets, TLC

\* ---------------------------------------------------------------- bounds
MaxEntryLen == 2        \* longest reviewer entry, in characters
MaxConfigEntries == 2   \* reviewer entries in the whole configuration
MaxLabels == 2          \* labels attached to the pull request

\* ---------------------------------------------------------------- domains
\* the sigil and one letter: entries are "", "@", "a", "@@", "@a", "a@", "aa"
Chars == {"@", "a"}
\* one label key and the reserved key
ConfigKeys == {"bug", "default"}
\* a label the configuration may name and one it never names
LabelNames == {"bug", "wip"}
\* the author's login; the configuration may or may not hold it as an entry
Authors == {<<"a">>}
\* the detail of a GithubException
GithubErrors == {"422"}
\* len(sys.argv): one argument short, and the expected count
ArgCounts == {4, 5}

\* ---------------------------------------------------------------- helpers
SeqsUpTo(S, n) == UNION {[1..k -> S] : k \in 0..n}

ToSet(s) == {s[i] : i \in DOMAIN s}

Entries == SeqsUpTo(Chars, MaxEntryLen)

\* what the file may say about one key: nothing, or a non-empty list of at
\* most n entries
KeyChoices(n) ==
    {[present |-> FALSE, list |-> <<>>]} \cup
    {[present |-> TRUE, list |-> lst] : lst \in SeqsUpTo(Entries, n) \ {<<>>}}

\* yaml.safe_load of a well-formed file: a mapping from the keys present to
\* their lists of strings
Mapping(choice) ==
    [k \in {x \in ConfigKeys : choice[x].present} |-> choice[k].list]

\* pull_request.labels: a list of label objects, here their names
LabelLists == SeqsUpTo(LabelNames, MaxLabels)

\* str.startswith("@")
startswith_at(s) == Len(s) > 0 /\ s[1] = "@"

\* reviewer[1:]
strip_first(s) == IF Len(s) = 0 THEN s ELSE Tail(s)

\* ------------------------------------------------------- add_reviewers
\* variant: the sigil is kept on the team name
add_one_keeps_sigil(acc, reviewer) ==
    IF startswith_at(reviewer)
    THEN [r |-> acc.r, t |-> acc.t \cup {reviewer}]
    ELSE [r |-> acc.r \cup {reviewer}, t |-> acc.t]

\* variant: a team name is also requested as an individual
add_one_both(acc, reviewer) ==
    IF startswith_at(reviewer)
    THEN [r |-> acc.r \cup {strip_first(reviewer)},
          t |-> acc.t \cup {strip_first(reviewer)}]
    ELSE [r |-> acc.r \cup {reviewer}, t |-> acc.t]

add_one(acc, reviewer) ==
    IF startswith_at(reviewer)
    THEN [r |-> acc.r, t |-> acc.t \cup {strip_first(reviewer)}]
    ELSE [r |-> acc.r \cup {reviewer}, t |-> acc.t]

RECURSIVE add_reviewers(_, _)
add_reviewers(acc, new_entries) ==
    IF new_entries = <<>> THEN acc
    ELSE add_reviewers(add_one(acc, Head(new_entries)), Tail(new_entries))

\* ------------------------------------------- update_reviewers, selection
\* variant: only the first label is looked up
merge_labels_first_only(cfg, lbls, acc) ==
    IF lbls # <<>> /\ Head(lbls) \in DOMAIN cfg
    THEN add_reviewers(acc, cfg[Head(lbls)])
    ELSE acc

\* variant: every label key of the configuration is merged, whatever the
\* labels of the pull request
merge_labels_all_keys(cfg, lbls, acc) ==
    LET keys == (DOMAIN cfg) \ {"default"}
        RECURSIVE over(_, _)
        over(ks, a) ==
            IF ks = {} THEN a
            ELSE LET k == CHOOSE x \in ks : TRUE
                 IN over(ks \ {k}, add_reviewers(a, cfg[k]))
    IN over(keys, acc)

RECURSIVE merge_labels(_, _, _)
merge_labels(cfg, lbls, acc) ==
    IF lbls = <<>> THEN acc
    ELSE merge_labels(cfg, Tail(lbls),
                      IF Head(lbls) \in DOMAIN cfg
                      THEN add_reviewers(acc, cfg[Head(lbls)])
                      ELSE acc)

\* variant: "default" is a fallback, used only when no label contributed
merge_default_fallback(cfg, acc) ==
    IF "default" \in DOMAIN cfg /\ acc.r = {} /\ acc.t = {}
    THEN add_reviewers(acc, cfg["default"])
    ELSE acc

merge_default(cfg, acc) ==
    IF "default" \in DOMAIN cfg THEN add_reviewers(acc, cfg["default"]) ELSE acc

\* variant: the author is left in
remove_author_skipped(pull_request_author, acc) == acc

remove_author(pull_request_author, acc) ==
    IF pull_request_author \in acc.r
    THEN [r |-> acc.r \ {pull_request_author}, t |-> acc.t]
    ELSE acc

EmptySets == [r |-> {}, t |-> {}]

select_reviewers(cfg, lbls, pull_request_author) ==
    remove_author(pull_request_author,
                  merge_default(cfg, merge_labels(cfg, lbls, EmptySets)))

\* list(a_set): every element once, in an order the code does not control
list_of(S) == {s \in [1..Cardinality(S) -> S] : ToSet(s) = S}

\* ---------------------------------------------------------------- state
VARIABLES
    pc,              \* position in the script
    argc,            \* len(sys.argv)
    repo,            \* outcome of g.get_repo: "none" / "ok" / "falsy" / "raised"
    config,          \* the loaded configuration, the empty mapping before loading
    pull,            \* outcome of repo.get_pull: "none" / "ok" / "falsy" / "raised"
    author,          \* pull_request.user.login
    labels,          \* names of pull_request.labels
    reviewers,       \* the local set reviewers
    team_reviewers,  \* the local set team_reviewers
    api,             \* calls made on the platform client, in order
    stderr,          \* what the process wrote to the error stream
    request_error,   \* the GithubException create_review_request raised
    uncaught,        \* exception that left the script unhandled
    exit_code        \* process exit status, -1 while running

vars == <<pc, argc, repo, config, pull, author, labels, reviewers, team_reviewers,
          api, stderr, request_error, uncaught, exit_code>>

Init ==
    /\ pc = "main"
    /\ argc \in ArgCounts
    /\ repo = "none"
    /\ config = <<>>
    /\ pull = "none"
    /\ author = <<>>
    /\ labels = <<>>
    /\ reviewers = {}
    /\ team_reviewers = {}
    /\ api = <<>>
    /\ stderr = <<>>
    /\ request_error = "none"
    /\ uncaught = "none"
    /\ exit_code = -1

\* sys.exit(code)
Exit(code) ==
    /\ pc' = "exit"
    /\ exit_code' = code
    /\ uncaught' = "none"

\* an exception nobody catches: the interpreter prints the traceback to the
\* error stream and the process ends with status 1
Crash(exc) ==
    /\ pc' = "exit"
    /\ exit_code' = 1
    /\ uncaught' = exc
    /\ stderr' = Append(stderr, [kind |-> "traceback", detail |-> exc])

\* lines 56-58
CheckArgs ==
    /\ pc = "main"
    /\ IF argc # 5
       THEN /\ stderr' = Append(stderr, [kind |-> "usage", detail |-> ""])
            /\ Exit(1)
       ELSE /\ pc' = "parse_args"
            /\ UNCHANGED <<stderr, exit_code, uncaught>>
    /\ UNCHANGED <<argc, repo, config, pull, author, labels, reviewers,
                   team_reviewers, api, request_error>>

\* lines 60-63: int(sys.argv[3]) raises ValueError on a non-numeric id
ParseArgs ==
    /\ pc = "parse_args"
    /\ \E numeric \in BOOLEAN :
          IF numeric
          THEN /\ pc' = "get_repo"
               /\ UNCHANGED <<stderr, exit_code, uncaught>>
          ELSE Crash("ValueError")
    /\ UNCHANGED <<argc, repo, config, pull, author, labels, reviewers,
                   team_reviewers, api, request_error>>

\* lines 65-70
GetRepo ==
    /\ pc = "get_repo"
    /\ api' = Append(api, [op |-> "get_repo", reviewers |-> <<>>, team_reviewers |-> <<>>])
    /\ \E res \in {"ok", "falsy", "raised"} :
          /\ repo' = res
          /\ CASE res = "ok" ->
                  /\ pc' = "check_config"
                  /\ UNCHANGED <<stderr, exit_code, uncaught>>
               [] res = "falsy" ->
                  /\ stderr' = Append(stderr, [kind |-> "repo_not_found", detail |-> ""])
                  /\ Exit(1)
               [] res = "raised" -> Crash("GithubException")
    /\ UNCHANGED <<argc, config, pull, author, labels, reviewers,
                   team_reviewers, request_error>>

\* lines 72-77
LoadConfig ==
    /\ pc = "check_config"
    /\ \/ /\ stderr' = Append(stderr, [kind |-> "config_not_found", detail |-> ""])
          /\ Exit(1)
          /\ UNCHANGED config
       \/ /\ \E b \in KeyChoices(MaxConfigEntries) :
             \E d \in KeyChoices(MaxConfigEntries - Len(b.list)) :
                config' = Mapping([bug |-> b, default |-> d])
          /\ pc' = "get_pull"
          /\ UNCHANGED <<stderr, exit_code, uncaught>>
    /\ UNCHANGED <<argc, repo, pull, author, labels, reviewers, team_reviewers,
                   api, request_error>>

\* variant: the message is written but the function does not return
ReportUnknownPR_no_return ==
    /\ stderr' = Append(stderr, [kind |-> "unknown_pr", detail |-> ""])
    /\ pc' = "labels"
    /\ UNCHANGED <<exit_code, uncaught>>

\* the statement executed when the pull request is falsy, line 25:
\* sys.stderr.writable takes no argument, so the call raises TypeError before
\* anything is written and before "return 1" is reached
ReportUnknownPR == Crash("TypeError")

\* lines 22-30
GetPull ==
    /\ pc = "get_pull"
    /\ api' = Append(api, [op |-> "get_pull", reviewers |-> <<>>, team_reviewers |-> <<>>])
    /\ \E res \in {"ok", "falsy", "raised"} :
          /\ pull' = res
          /\ CASE res = "ok" ->
                  /\ author' \in Authors
                  /\ labels' \in LabelLists
                  /\ pc' = "labels"
                  /\ UNCHANGED <<stderr, exit_code, uncaught>>
               [] res = "falsy" ->
                  /\ ReportUnknownPR
                  /\ UNCHANGED <<author, labels>>
               [] res = "raised" ->
                  /\ Crash("GithubException")
                  /\ UNCHANGED <<author, labels>>
    /\ reviewers' = {}
    /\ team_reviewers' = {}
    /\ UNCHANGED <<argc, repo, config, request_error>>

\* lines 32-34
MergeLabels ==
    /\ pc = "labels"
    /\ LET acc == merge_labels(config, labels, [r |-> reviewers, t |-> team_reviewers])
       IN /\ reviewers' = acc.r
          /\ team_reviewers' = acc.t
    /\ pc' = "default"
    /\ UNCHANGED <<argc, repo, config, pull, author, labels, api, stderr,
                   request_error, uncaught, exit_code>>

\* lines 36-37
MergeDefault ==
    /\ pc = "default"
    /\ LET acc == merge_default(config, [r |-> reviewers, t |-> team_reviewers])
       IN /\ reviewers' = acc.r
          /\ team_reviewers' = acc.t
    /\ pc' = "author"
    /\ UNCHANGED <<argc, repo, config, pull, author, labels, api, stderr,
                   request_error, uncaught, exit_code>>

\* lines 39-40
RemoveAuthor ==
    /\ pc = "author"
    /\ LET acc == remove_author(author, [r |-> reviewers, t |-> team_reviewers])
       IN /\ reviewers' = acc.r
          /\ team_reviewers' = acc.t
    /\ pc' = "request"
    /\ UNCHANGED <<argc, repo, config, pull, author, labels, api, stderr,
                   request_error, uncaught, exit_code>>

\* line 51: the message written when the request fails
request_failure_message(e) == [kind |-> "cannot_assign", detail |-> e]

\* line 49 and line 52: the values update_reviewers returns, which line 79
\* hands to sys.exit
request_status(failed) == IF failed THEN 1 ELSE 0

\* variant: the two arguments are swapped
request_call_swapped(rl, tl) ==
    [op |-> "create_review_request", reviewers |-> tl, team_reviewers |-> rl]

\* line 48: pull_request.create_review_request(reviewers, team_reviewers)
request_call(rl, tl) ==
    [op |-> "create_review_request", reviewers |-> rl, team_reviewers |-> tl]

\* lines 42-52 and the sys.exit of line 79
Request ==
    /\ pc = "request"
    /\ \E rl \in list_of(reviewers), tl \in list_of(team_reviewers) :
          api' = Append(api, request_call(rl, tl))
    /\ \/ /\ request_error' = "none"
          /\ UNCHANGED stderr
          /\ Exit(request_status(FALSE))
       \/ \E e \in GithubErrors :
             /\ request_error' = e
             /\ stderr' = Append(stderr, request_failure_message(e))
             /\ Exit(request_status(TRUE))
    /\ UNCHANGED <<argc, repo, config, pull, author, labels, reviewers, team_reviewers>>

Next ==
    \/ CheckArgs
    \/ ParseArgs
    \/ GetRepo
    \/ LoadConfig
    \/ GetPull
    \/ MergeLabels
    \/ MergeDefault
    \/ RemoveAuthor
    \/ Request

Spec == Init /\ [][Next]_vars

\* ------------------------------------------------------------ vocabulary
\* the create_review_request calls made so far
ReviewRequests == {api[i] : i \in {j \in DOMAIN api : api[j].op = "create_review_request"}}

NumReviewRequests ==
    Cardinality({j \in DOMAIN api : api[j].op = "create_review_request"})

\* the configuration file has been read
Loaded == pc = "get_pull" \/ pull # "none"

\* the keys whose entries the selection merges: matching labels and "default"
MergedKeys ==
    IF Loaded
    THEN (DOMAIN config) \cap (ToSet(labels) \cup {"default"})
    ELSE {}

\* the configuration entries the selection merges
MergedEntries == UNION {ToSet(config[k]) : k \in MergedKeys}

PlainMerged == {e \in MergedEntries : ~startswith_at(e)}

TeamMerged == {e \in MergedEntries : startswith_at(e)}

\* the selection has run to its end (merges done), with or without the
\* removal of the author
Selected == pull = "ok" /\ pc \in {"author", "request", "exit"}

\* ---------------------------------------------------------------- C1
\* C1: the individual-reviewer list passed to create_review_request never
\* contains the login of the pull request's author.
C1_AuthorExcluded ==
    \A c \in ReviewRequests : author \notin ToSet(c.reviewers)

\* a request was made for a pull request whose author is a merged plain entry
C1_Witness ==
    /\ NumReviewRequests = 1
    /\ author \in PlainMerged

\* ---------------------------------------------------------------- C2
\* C2 as stated: once the merges are done, every merged entry beginning with
\* "@" has its name without the sigil in team_reviewers and that name is not
\* in reviewers; right after the merges every merged entry not beginning
\* with "@" is in reviewers.
C2_Original ==
    /\ Selected =>
          \A e \in TeamMerged :
             /\ strip_first(e) \in team_reviewers
             /\ strip_first(e) \notin reviewers
    /\ (pull = "ok" /\ pc = "author") => \A e \in PlainMerged : e \in reviewers

\* C2 amended: every merged "@" entry has its name without the sigil in
\* team_reviewers, and that name is in reviewers only when it is also merged
\* as a plain entry; right after the merges every merged plain entry is in
\* reviewers.
C2_Classification ==
    /\ Selected =>
          \A e \in TeamMerged :
             /\ strip_first(e) \in team_reviewers
             /\ strip_first(e) \in reviewers => strip_first(e) \in PlainMerged
    /\ (pull = "ok" /\ pc = "author") => \A e \in PlainMerged : e \in reviewers

\* merges done with a team entry and a plain entry, the team's name not
\* among the individuals
C2_Witness ==
    /\ pull = "ok" /\ pc = "author"
    /\ \E e \in TeamMerged : Len(e) > 1 /\ strip_first(e) \notin reviewers
    /\ PlainMerged # {}

\* ---------------------------------------------------------------- C3
\* what the selection algorithm yields, stated on sets
ExpectedReviewers == PlainMerged \ {author}

ExpectedTeams == {strip_first(e) : e \in TeamMerged}

IsListOf(l, S) == ToSet(l) = S /\ Len(l) = Cardinality(S)

OnlyReadsBesides ==
    \A i \in DOMAIN api :
       api[i].op \in {"get_repo", "get_pull", "create_review_request"}

\* C3 as stated: every invocation makes exactly one call to
\* create_review_request, with the computed sets as lists, and nothing else
\* is sent to the platform.
C3_Original ==
    pc = "exit" =>
       /\ NumReviewRequests = 1
       /\ \A c \in ReviewRequests :
             /\ IsListOf(c.reviewers, ExpectedReviewers)
             /\ IsListOf(c.team_reviewers, ExpectedTeams)
       /\ OnlyReadsBesides

\* C3 amended: an invocation makes at most one call to create_review_request,
\* and exactly one when the pull request was found; the arguments are the
\* computed reviewers and team_reviewers as lists, and the only other
\* platform calls are the two lookups.
C3_OneRequest ==
    /\ NumReviewRequests <= 1
    /\ (pc = "exit" /\ pull = "ok") => NumReviewRequests = 1
    /\ \A c \in ReviewRequests :
          /\ IsListOf(c.reviewers, ExpectedReviewers)
          /\ IsListOf(c.team_reviewers, ExpectedTeams)
    /\ OnlyReadsBesides

\* the request was made with one individual and one team that differ
C3_Witness ==
    /\ pc = "exit"
    /\ \E c \in ReviewRequests :
          /\ Len(c.reviewers) = 1 /\ Len(c.team_reviewers) = 1
          /\ c.reviewers # c.team_reviewers

\* ---------------------------------------------------------------- C4
\* a message of the program about the failure, as opposed to the
\* interpreter's traceback
Diagnosed(kind) == \E i \in DOMAIN stderr : stderr[i].kind = kind

\* C4: exit status 0 when the request is submitted, status 1 with a
\* diagnostic message on the error stream for a wrong argument count, an
\* unknown pull request, an unknown repository, a missing configuration file
\* and a failed create_review_request.
C4_ExitStatus ==
    pc = "exit" =>
       /\ (NumReviewRequests = 1 /\ request_error = "none") => exit_code = 0
       /\ argc # 5 => exit_code = 1 /\ Diagnosed("usage")
       /\ repo = "falsy" => exit_code = 1 /\ Diagnosed("repo_not_found")
       /\ (repo = "ok" /\ ~Loaded) => exit_code = 1 /\ Diagnosed("config_not_found")
       /\ pull = "falsy" => exit_code = 1 /\ Diagnosed("unknown_pr")
       /\ request_error # "none" => exit_code = 1 /\ Diagnosed("cannot_assign")

\* ---------------------------------------------------------------- C5
\* C5: when the pull request lookup fails, the process exits with status 1
\* and create_review_request is never called.
C5_LookupFailure ==
    pull \in {"falsy", "raised"} =>
       /\ pc = "exit"
       /\ exit_code = 1
       /\ NumReviewRequests = 0

\* the lookup returned nothing
C5_Witness == pull = "falsy" /\ pc = "exit" /\ Loaded

\* ---------------------------------------------------------------- C6
\* C6: a platform error raised by create_review_request is caught, reported
\* with its detail, the process exits with status 1 without a second call;
\* and no error of any kind leaves the invocation uncaught.
C6_ErrorsHandled ==
    /\ request_error # "none" =>
          /\ pc = "exit" /\ exit_code = 1
          /\ \E i \in DOMAIN stderr :
                stderr[i] = [kind |-> "cannot_assign", detail |-> request_error]
          /\ NumReviewRequests = 1
    /\ uncaught = "none"

\* ---------------------------------------------------------------- C7
\* C7: when the configuration has the key "default", whatever the labels,
\* each plain default entry other than the author is among the requested
\* reviewers and each "@" default entry, without the sigil, among the
\* requested team_reviewers.
C7_DefaultMerged ==
    (Loaded /\ pc = "exit" /\ pull = "ok" /\ "default" \in DOMAIN config) =>
       \A c \in ReviewRequests : \A e \in ToSet(config["default"]) :
          IF startswith_at(e)
          THEN strip_first(e) \in ToSet(c.team_reviewers)
          ELSE e # author => e \in ToSet(c.reviewers)

\* empty label list and a default with entries
C7_Witness ==
    /\ Loaded /\ pc = "exit" /\ pull = "ok" /\ NumReviewRequests = 1
    /\ labels = <<>>
    /\ "default" \in DOMAIN config /\ Len(config["default"]) > 0

\* ---------------------------------------------------------------- C8
\* C8: for a fixed configuration and author, the sets computed for a label
\* set included in the pull request's are included in the sets computed for
\* the pull request.
C8_Monotonic ==
    (pull = "ok" /\ pc = "request") =>
       \A sub \in LabelLists :
          ToSet(sub) \subseteq ToSet(labels) =>
             LET small == select_reviewers(config, sub, author)
             IN /\ small.r \subseteq reviewers
                /\ small.t \subseteq team_reviewers

\* two labels, the second one a configuration key with entries
C8_Witness ==
    /\ pull = "ok" /\ pc = "request"
    /\ Len(labels) = 2 /\ labels[1] # labels[2]
    /\ labels[1] \notin DOMAIN config
    /\ labels[2] \in DOMAIN config /\ Len(config[labels[2]]) > 0
    /\ reviewers \cup team_reviewers # {}

\* ---------------------------------------------------------------- C9
\* C9 as stated: no string is both in reviewers and in team_reviewers.
C9_Original ==
    \A c \in ReviewRequests :
       ToSet(c.reviewers) \cap ToSet(c.team_reviewers) = {}

\* C9 amended: a string is in both reviewers and team_reviewers only when
\* the merged entries hold it both plain and with the "@" sigil.
C9_OverlapOnlyByName ==
    \A c \in ReviewRequests :
       \A x \in ToSet(c.reviewers) \cap ToSet(c.team_reviewers) :
          /\ x \in PlainMerged
          /\ <<"@">> \o x \in TeamMerged

\* a request whose two lists share a name
C9_Witness ==
    \E c \in ReviewRequests :
       ToSet(c.reviewers) \cap ToSet(c.team_reviewers) # {}

\* ---------------------------------------------------------------- C10
NothingConfigured == Loaded /\ pull = "ok" /\ MergedKeys = {}

\* C10: when no label is a configuration key and there is no "default" key,
\* create_review_request is still called, with two empty lists.
C10_EmptyRequest ==
    (pc = "exit" /\ NothingConfigured) =>
       /\ NumReviewRequests = 1
       /\ \A c \in ReviewRequests : c.reviewers = <<>> /\ c.team_reviewers = <<>>

\* the configuration has entries, none for the labels of the pull request
C10_Witness ==
    /\ pc = "exit" /\ NothingConfigured
    /\ labels # <<>>
    /\ \E k \in DOMAIN config : Len(config[k]) > 0
    /\ NumReviewRequests = 1

TypeOK ==
    /\ pc \in {"main", "parse_args", "get_repo", "check_config", "get_pull",
               "labels", "default", "author", "request", "exit"}
    /\ exit_code \in {-1, 0, 1}
====
